---- MODULE Spec2Model ----
(***************************************************************************)
(* Model of src/main.rs: the one-shot report pipeline                      *)
(*   args -> field descriptor -> CSV -> describe -> parallel extraction    *)
(*   -> correlation() -> Pearson / Kendall tables -> factor analysis       *)
(*   -> <source>.md                                                        *)
(* together with the Display implementations that render a matrix cell.    *)
(*                                                                         *)
(* f64 values are fixed-point integers in units of 10^-6, or NaN.  Strings *)
(* the program builds with format! are sequences of string tokens whose    *)
(* concatenation is the Rust string; the CJK literals of the source are    *)
(* written in ASCII ("NA" for the not-applicable marker, "Descriptive" and *)
(* "Factor" for the two CJK section titles).                               *)
(***************************************************************************)
EXTENDS Integers, Sequences, FiniteSets, TLC

\* ------------------------------------------------------------------ bounds
MaxFields == 2        \* records in the field descriptor file
NRows     == 1        \* rows of the CSV file

\* ------------------------------------------------------------- f64 values
Num(v) == [k |-> "num", v |-> v]
NaN    == [k |-> "nan", v |-> 0]
Null   == [k |-> "null", v |-> 0]      \* Option<f64>::None of a polars column

\* IEEE comparisons of f64: every comparison with NaN is false.
F64Eq(a, b) == a.k = "num" /\ b.k = "num" /\ a.v = b.v
F64Gt(a, b) == a.k = "num" /\ b.k = "num" /\ a.v > b.v
F64Lt(a, b) == a.k = "num" /\ b.k = "num" /\ a.v < b.v

\* Vec<f64> == Vec<f64> (slice PartialEq): same length, elementwise ==.
VecEq(x, y) == Len(x) = Len(y) /\ \A n \in 1..Len(x) : F64Eq(x[n], y[n])

\* ------------------------------------------------------------ input spaces
Scales == {"Nominal", "Ordinal"}

\* Columns of the CSV file, in file order.  "spend" stands for a header that
\* contains one of the two designated question texts; "ghost" is a name a
\* descriptor can carry that is no column of the file.
DatasetColumns == <<"q1", "spend">>
FieldNames     == {"q1", "spend", "ghost"}
RawCells       == {Null, Num(0), Num(1000000), NaN}

Field(name, scale) == [name |-> name, scale |-> scale]
FieldRecords == {Field(nm, sc) : nm \in FieldNames, sc \in Scales}
FieldSeqs == UNION {[1..n -> FieldRecords] : n \in 0..MaxFields}

Datasets ==
  { [c \in 1..Len(DatasetColumns) |-> [name |-> DatasetColumns[c], cells |-> cs[c]]]
      : cs \in [1..Len(DatasetColumns) -> [1..NRows -> RawCells]] }

\* What scipy.stats.pearsonr / kendalltau hand back as (statistic, pvalue)
\* when they return: NaN for both when an input holds a NaN (their NaN
\* policy is to propagate), else some coefficient and significance.
HasNaN(x) == \E n \in 1..Len(x) : x[n].k = "nan"

ProviderResults(x, y) ==
  IF HasNaN(x) \/ HasNaN(y)
  THEN { [r |-> NaN, p_value |-> NaN] }
  ELSE { [r |-> Num(312000), p_value |-> Num(1200)],
         [r |-> Num(0 - 250000), p_value |-> Num(400000)] }

\* ------------------------------------------------- Display (lines 40 - 71)
precision == 5
Alpha     == 50000          \* 0.05

RECURSIVE Pow10(_)
Pow10(n) == IF n = 0 THEN 1 ELSE 10 * Pow10(n - 1)

RECURSIVE Digits(_, _)
\* the low n decimal digits of u, zero padded
Digits(u, n) ==
  IF n = 0 THEN "" ELSE Digits(u \div 10, n - 1) \o ToString(u % 10)

\* format!("{:.precision$}", x): round to `precision` decimals, keep the sign.
\* (The value grids below hold no value exactly half way between two
\* printable values, so the rounding direction of a tie never matters.)
Fixed(x) ==
  IF x.k = "nan" THEN "NaN"
  ELSE LET a    == IF x.v < 0 THEN 0 - x.v ELSE x.v
           step == Pow10(6 - precision)
           u    == (2 * a + step) \div (2 * step)
           unit == Pow10(precision)
       IN  (IF x.v < 0 THEN "-" ELSE "")
             \o ToString(u \div unit) \o "." \o Digits(u % unit, precision)

NotValid   == [valid |-> FALSE, r |-> Num(0), p_value |-> Num(0)]
Valid(res) == [valid |-> TRUE, r |-> res.r, p_value |-> res.p_value]

\* impl From<(f64, f64)> for CorrelationResult
CorrelationResultFrom(pair) == [r |-> pair.r, p_value |-> pair.p_value]

\* variant: the two comparisons taken inclusive (>=, <=)
SignificantInclusive(res) ==
  /\ res.r.k = "num" /\ res.r.v >= 0
  /\ res.p_value.k = "num" /\ res.p_value.v <= Alpha

Significant(res) == F64Gt(res.r, Num(0)) /\ F64Lt(res.p_value, Num(Alpha))

\* impl Display for CorrelationResult
DisplayResult(res) ==
  IF Significant(res)
  THEN <<"**", "r: ", Fixed(res.r), "**", " <br> ",
         "**", "p value: ", Fixed(res.p_value), "**">>
  ELSE <<"r: ", Fixed(res.r), "<br>", "p value: ", Fixed(res.p_value)>>

\* impl Display for CorrelationValue
DisplayValue(cv) ==
  IF cv.valid THEN DisplayResult([r |-> cv.r, p_value |-> cv.p_value])
  ELSE <<"NA">>

\* --------------------------------------------------------- program state
VARIABLES
  pc,                 \* position in main()
  argc,               \* number of positional arguments given
  fields,             \* Vec<Field> parsed from the descriptor
  orig_dataframe,     \* the CSV as a sequence of named columns
  result,             \* Vec<String> of report sections
  slots,              \* rayon collect buffer of the extraction
  pending,            \* extraction tasks that have not finished
  overtaken,          \* a task finished before one of lower index did
  processed_data,     \* Vec<Vec<f64>>
  ci, cj, row,        \* correlation(): outer index, inner index, cells so far
  pearson_series_vec,
  kendall_series_vec,
  calls,              \* calls made to scipy.stats, with what they returned
  fa_input,           \* frames handed to factor_analysis()
  exit_code,          \* -1 while running
  diag,               \* what went to stderr
  out_file,           \* <source>.md: Absent, or what was written
  fmt_value, fmt_text \* a CorrelationValue and its rendering

vars == <<pc, argc, fields, orig_dataframe, result, slots, pending, overtaken,
          processed_data, ci, cj, row, pearson_series_vec, kendall_series_vec,
          calls, fa_input, exit_code, diag, out_file, fmt_value, fmt_text>>

\* ----------------------------------------------------------- data frames
Series(name, values) == [name |-> name, values |-> values]

SeriesNames(df) == [n \in 1..Len(df) |-> df[n].name]

HasColumn(df, name) == \E c \in 1..Len(df) : df[c].name = name

\* DataFrame::column(name): the column of that name
Column(df, name) == df[CHOOSE c \in 1..Len(df) : df[c].name = name]

\* DataFrame::new(columns) is Ok iff the names are pairwise distinct and the
\* columns are equally long.
DataFrameNewOk(columns) ==
  /\ \A a, b \in 1..Len(columns) : columns[a].name = columns[b].name => a = b
  /\ \A a, b \in 1..Len(columns) : Len(columns[a].values) = Len(columns[b].values)

\* .cast(Float64).f64().into_iter().map(|data| data.unwrap_or(0.0)).collect()
ExtractColumn(df, name) ==
  LET cells == Column(df, name).cells
  IN  [n \in 1..Len(cells) |-> IF cells[n] = Null THEN Num(0) ELSE cells[n]]

\* field.name.contains(<designated question text>) || field.name.contains(..)
IsDesignated(name) == name \in {"spend"}

Section(title, body) == [title |-> title, body |-> body]

Absent == [state |-> "absent", content |-> <<>>]

\* --------------------------------------------------------- initial state
Init ==
  /\ pc = "start"
  /\ argc \in 0..2
  /\ fields = <<>>
  /\ orig_dataframe = <<>>
  /\ result = <<>>
  /\ slots = <<>>
  /\ pending = {}
  /\ overtaken = FALSE
  /\ processed_data = <<>>
  /\ ci = 0 /\ cj = 0 /\ row = <<>>
  /\ pearson_series_vec = <<>>
  /\ kendall_series_vec = <<>>
  /\ calls = {}
  /\ fa_input = <<>>
  /\ exit_code = -1
  /\ diag = ""
  /\ out_file = Absent
  /\ fmt_value = NotValid
  /\ fmt_text = <<>>

inputVars   == <<argc, fields, orig_dataframe>>
extractVars == <<slots, pending, overtaken, processed_data>>
corrVars    == <<ci, cj, row, pearson_series_vec, kendall_series_vec, calls>>
fmtVars     == <<fmt_value, fmt_text>>

\* exit(1) after eprintln!(msg)
Exit1(msg) == pc' = "exited" /\ exit_code' = 1 /\ diag' = msg

\* a panicking unwrap(): the process ends with Rust's panic status 101
Panic(msg) == pc' = "exited" /\ exit_code' = 101 /\ diag' = msg

\* ------------------------------------------------- main(): lines 86 - 110
NoSourceFile ==
  /\ pc = "start" /\ argc < 1
  /\ Exit1("No source file specified.")
  /\ UNCHANGED <<inputVars, result, extractVars, corrVars, fa_input, out_file, fmtVars>>

\* variant: a missing descriptor read as an empty classification
NoFieldFileImplicit ==
  /\ pc = "start" /\ argc = 1
  /\ fields' = <<>>
  /\ pc' = "read_csv"
  /\ UNCHANGED <<argc, orig_dataframe, result, extractVars, corrVars, fa_input,
                 exit_code, diag, out_file, fmtVars>>

NoFieldFile ==
  /\ pc = "start" /\ argc = 1
  /\ Exit1("No field description file specified.")
  /\ UNCHANGED <<inputVars, result, extractVars, corrVars, fa_input, out_file, fmtVars>>

\* File::open(field_file_name).unwrap()
OpenFieldFileFails ==
  /\ pc = "start" /\ argc >= 2
  /\ Panic("File::open")
  /\ UNCHANGED <<inputVars, result, extractVars, corrVars, fa_input, out_file, fmtVars>>

ParseFieldsFails ==
  /\ pc = "start" /\ argc >= 2
  /\ Exit1("Unable to parse fields from JSON file you specified.")
  /\ UNCHANGED <<inputVars, result, extractVars, corrVars, fa_input, out_file, fmtVars>>

ParseFields ==
  /\ pc = "start" /\ argc >= 2
  /\ \E fs \in FieldSeqs : fields' = fs
  /\ pc' = "read_csv"
  /\ UNCHANGED <<argc, orig_dataframe, result, extractVars, corrVars, fa_input,
                 exit_code, diag, out_file, fmtVars>>

ReadCsvFails ==
  /\ pc = "read_csv"
  /\ Exit1("Unable to open CSV file.")
  /\ UNCHANGED <<inputVars, result, extractVars, corrVars, fa_input, out_file, fmtVars>>

ReadCsv ==
  /\ pc = "read_csv"
  /\ \E df \in Datasets : orig_dataframe' = df
  /\ pc' = "describe"
  /\ UNCHANGED <<argc, fields, result, extractVars, corrVars, fa_input,
                 exit_code, diag, out_file, fmtVars>>

\* ------------------------------------------------ main(): lines 111 - 116
DescribeFails ==
  /\ pc = "describe"
  /\ Panic("describe")
  /\ UNCHANGED <<inputVars, result, extractVars, corrVars, fa_input, out_file, fmtVars>>

\* the first section is pushed and the extraction tasks of lines 117 - 131
\* are spawned, one per field
Describe ==
  /\ pc = "describe"
  /\ result' = Append(result,
        Section("Descriptive",
                [c \in 1..Len(orig_dataframe) |-> Series(orig_dataframe[c].name, <<>>)]))
  /\ slots' = [n \in 1..Len(fields) |-> [done |-> FALSE, data |-> <<>>]]
  /\ pending' = 1..Len(fields)
  /\ pc' = "extract"
  /\ UNCHANGED <<inputVars, overtaken, processed_data, corrVars, fa_input,
                 exit_code, diag, out_file, fmtVars>>

\* ------------------------------------------------ main(): lines 117 - 131
\* fields.par_iter().map(..).collect::<Vec<_>>(): one task per field, run in
\* any order; the indexed collect writes the task's value at the task's index.
\* variant: values kept in the order the tasks finish
CollectIntoArrival(s, n, v) ==
  LET free == CHOOSE m \in 1..Len(s) :
                 ~s[m].done /\ \A l \in 1..(m - 1) : s[l].done
  IN  [s EXCEPT ![free] = [done |-> TRUE, data |-> v]]

CollectInto(s, n, v) == [s EXCEPT ![n] = [done |-> TRUE, data |-> v]]

ExtractTask(n) ==
  /\ pc = "extract"
  /\ n \in pending
  /\ HasColumn(orig_dataframe, fields[n].name)
  /\ slots' = CollectInto(slots, n, ExtractColumn(orig_dataframe, fields[n].name))
  /\ pending' = pending \ {n}
  /\ overtaken' = (overtaken \/ \E m \in pending : m < n)
  /\ UNCHANGED <<pc, inputVars, result, processed_data, corrVars, fa_input,
                 exit_code, diag, out_file, fmtVars>>

\* orig_dataframe.column(&field.name).unwrap() on a name the CSV lacks
ExtractTaskPanics(n) ==
  /\ pc = "extract"
  /\ n \in pending
  /\ ~HasColumn(orig_dataframe, fields[n].name)
  /\ Panic("column not found")
  /\ UNCHANGED <<inputVars, result, extractVars, corrVars, fa_input, out_file, fmtVars>>

CollectExtracted ==
  /\ pc = "extract"
  /\ pending = {}
  /\ processed_data' = [n \in 1..Len(slots) |-> slots[n].data]
  /\ slots' = <<>>
  /\ pc' = "correlation"
  /\ UNCHANGED <<inputVars, result, pending, overtaken, corrVars, fa_input,
                 exit_code, diag, out_file, fmtVars>>

\* -------------------------------------------- correlation(): 194 - 274
Min(a, b) == IF a < b THEN a ELSE b

\* fields.iter().filter(|f| matches!(f.scale, <scale>)).map(|f| f.name.clone())
\* variant: the scale filter left out
NamesOfScaleAll(fs, scale) == [n \in 1..Len(fs) |-> fs[n].name]

NamesOfScale(fs, scale) ==
  LET kept == SelectSeq(fs, LAMBDA f : f.scale = scale)
  IN  [n \in 1..Len(kept) |-> kept[n].name]

\* column_names.get(index).unwrap_or(&unknown_value), index counted from 0
\* variant: the index read as counted from 1
SeriesNameOneBased(fs, index) ==
  IF 0 < index /\ index <= Len(fs) THEN fs[index].name ELSE "unknown"

SeriesName(fs, index) == IF index < Len(fs) THEN fs[index + 1].name ELSE "unknown"

\* the arm of `match field.scale` taken: which scipy function it calls ...
ProviderFor(scale) == IF scale = "Nominal" THEN "kendall" ELSE "pearson"

\* ... and the .filter() of that arm's inner iterator
\* variant: the inner filter left out
InArmFilterNone(armScale, f) == TRUE

InArmFilter(armScale, f) == f.scale = armScale

\* length of processed_data.iter().enumerate().zip(fields)
ZipLen == Min(Len(processed_data), Len(fields))

CorrelationBegin ==
  /\ pc = "correlation"
  /\ pearson_series_vec' = <<Series("", NamesOfScale(fields, "Ordinal"))>>
  /\ kendall_series_vec' = <<Series("", NamesOfScale(fields, "Nominal"))>>
  /\ ci' = 1 /\ cj' = 1 /\ row' = <<>>
  /\ overtaken' = FALSE
  /\ pc' = "corr_loop"
  /\ UNCHANGED <<inputVars, result, slots, pending, processed_data, calls, fa_input,
                 exit_code, diag, out_file, fmtVars>>

InCell ==
  /\ pc = "corr_loop"
  /\ ci <= ZipLen /\ cj <= ZipLen

\* the inner filter drops field cj
CellFiltered ==
  /\ InCell
  /\ ~InArmFilter(fields[ci].scale, fields[cj])
  /\ cj' = cj + 1
  /\ UNCHANGED <<pc, inputVars, result, extractVars, ci, row, pearson_series_vec,
                 kendall_series_vec, calls, fa_input, exit_code, diag, out_file,
                 fmtVars>>

\* if x == y { format!("{}", CorrelationValue::NotValid) }
CellNotValid ==
  /\ InCell
  /\ InArmFilter(fields[ci].scale, fields[cj])
  /\ VecEq(processed_data[ci], processed_data[cj])
  /\ row' = Append(row, DisplayValue(NotValid))
  /\ cj' = cj + 1
  /\ UNCHANGED <<pc, inputVars, result, extractVars, ci, pearson_series_vec,
                 kendall_series_vec, calls, fa_input, exit_code, diag, out_file,
                 fmtVars>>

Call(res) ==
  [stat |-> ProviderFor(fields[ci].scale), i |-> ci, j |-> cj,
   x |-> processed_data[ci], y |-> processed_data[cj], res |-> res]

\* else { format!("{}", Valid(CorrelationResult::from(kendall|pearson(x, y)))) }
CellCorrelate ==
  /\ InCell
  /\ InArmFilter(fields[ci].scale, fields[cj])
  /\ ~VecEq(processed_data[ci], processed_data[cj])
  /\ \E res \in ProviderResults(processed_data[ci], processed_data[cj]) :
        /\ calls' = calls \cup {Call(res)}
        /\ row' = Append(row, DisplayValue(Valid(CorrelationResultFrom(res))))
  /\ cj' = cj + 1
  /\ UNCHANGED <<pc, inputVars, result, extractVars, ci, pearson_series_vec,
                 kendall_series_vec, fa_input, exit_code, diag, out_file, fmtVars>>

\* one of the unwrap()s of pearson() / kendall() panics (lines 304 - 330)
CellProviderFails ==
  /\ InCell
  /\ InArmFilter(fields[ci].scale, fields[cj])
  /\ ~VecEq(processed_data[ci], processed_data[cj])
  /\ Panic("scipy.stats")
  /\ UNCHANGED <<inputVars, result, extractVars, corrVars, fa_input, out_file, fmtVars>>

\* <arm>_series_vec.push(Series::new(series_name, <arm>_series.as_slice()))
RowPush ==
  /\ pc = "corr_loop"
  /\ ci <= ZipLen /\ cj > ZipLen
  /\ LET s == Series(SeriesName(fields, ci - 1), row)
     IN  IF fields[ci].scale = "Nominal"
         THEN /\ kendall_series_vec' = Append(kendall_series_vec, s)
              /\ UNCHANGED pearson_series_vec
         ELSE /\ pearson_series_vec' = Append(pearson_series_vec, s)
              /\ UNCHANGED kendall_series_vec
  /\ ci' = ci + 1 /\ cj' = 1 /\ row' = <<>>
  /\ UNCHANGED <<pc, inputVars, result, extractVars, calls, fa_input, exit_code,
                 diag, out_file, fmtVars>>

CorrelationReturn ==
  /\ pc = "corr_loop"
  /\ ci > ZipLen
  /\ pc' = "pearson_df"
  /\ UNCHANGED <<inputVars, result, extractVars, corrVars, fa_input, exit_code,
                 diag, out_file, fmtVars>>

\* ------------------------------------------------ main(): lines 133 - 141
PearsonTable ==
  /\ pc = "pearson_df"
  /\ DataFrameNewOk(pearson_series_vec)
  /\ result' = Append(result, Section("Pearson", pearson_series_vec))
  /\ pc' = "kendall_df"
  /\ UNCHANGED <<inputVars, extractVars, corrVars, fa_input, exit_code, diag,
                 out_file, fmtVars>>

PearsonTablePanics ==
  /\ pc = "pearson_df"
  /\ ~DataFrameNewOk(pearson_series_vec)
  /\ Panic("DataFrame::new")
  /\ UNCHANGED <<inputVars, result, extractVars, corrVars, fa_input, out_file, fmtVars>>

KendallTable ==
  /\ pc = "kendall_df"
  /\ DataFrameNewOk(kendall_series_vec)
  /\ result' = Append(result, Section("Kendall", kendall_series_vec))
  /\ pc' = "factor_df"
  /\ UNCHANGED <<inputVars, extractVars, corrVars, fa_input, exit_code, diag,
                 out_file, fmtVars>>

KendallTablePanics ==
  /\ pc = "kendall_df"
  /\ ~DataFrameNewOk(kendall_series_vec)
  /\ Panic("DataFrame::new")
  /\ UNCHANGED <<inputVars, result, extractVars, corrVars, fa_input, out_file, fmtVars>>

\* ------------------------------------------------ main(): lines 143 - 172
\* fields.par_iter().filter(designated).map(|f| Series::new(&f.name, data))
\*       .collect::<Vec<Series>>()      (an indexed collect: field order)
FactorColumns ==
  LET kept == SelectSeq(fields, LAMBDA f : IsDesignated(f.name))
  IN  [n \in 1..Len(kept) |->
         Series(kept[n].name, ExtractColumn(orig_dataframe, kept[n].name))]

\* polars.DataFrame(data=fa.loadings_, schema=converted.columns.tolist())
Loadings(frame) == [n \in 1..Len(frame) |-> Series(frame[n].name, <<>>)]

FactorFramePanics ==
  /\ pc = "factor_df"
  /\ ~DataFrameNewOk(FactorColumns)
  /\ Panic("DataFrame::new")
  /\ UNCHANGED <<inputVars, result, extractVars, corrVars, fa_input, out_file, fmtVars>>

\* factor_analysis(factor_analysis_dataframe) returns the loadings
FactorAnalysis ==
  /\ pc = "factor_df"
  /\ DataFrameNewOk(FactorColumns)
  /\ fa_input' = Append(fa_input, FactorColumns)
  /\ result' = Append(result, Section("Factor", Loadings(FactorColumns)))
  /\ pc' = "write"
  /\ UNCHANGED <<inputVars, extractVars, corrVars, exit_code, diag, out_file, fmtVars>>

\* variant: a failed factor analysis skipped, the report written without it
FactorAnalysisFailsDegraded ==
  /\ pc = "factor_df"
  /\ DataFrameNewOk(FactorColumns)
  /\ fa_input' = Append(fa_input, FactorColumns)
  /\ pc' = "write"
  /\ UNCHANGED <<inputVars, result, extractVars, corrVars, exit_code, diag,
                 out_file, fmtVars>>

\* one of the unwrap()s of factor_analysis() panics (lines 276 - 302)
FactorAnalysisFails ==
  /\ pc = "factor_df"
  /\ DataFrameNewOk(FactorColumns)
  /\ fa_input' = Append(fa_input, FactorColumns)
  /\ Panic("factor_analyzer")
  /\ UNCHANGED <<inputVars, result, extractVars, corrVars, out_file, fmtVars>>

\* ------------------------------------------------ main(): lines 174 - 178
WriteOutput ==
  /\ pc = "write"
  /\ out_file' = [state |-> "complete", content |-> result]
  /\ pc' = "done" /\ exit_code' = 0
  /\ UNCHANGED <<inputVars, result, extractVars, corrVars, fa_input, diag, fmtVars>>

\* fs::write fails: at the create (no file) or at the write (a file cut short)
WriteOutputFails ==
  /\ pc = "write"
  /\ out_file' \in {Absent, [state |-> "partial", content |-> <<>>]}
  /\ Exit1("Unable to write result.")
  /\ UNCHANGED <<inputVars, result, extractVars, corrVars, fa_input, fmtVars>>

Next ==
  \/ NoSourceFile \/ NoFieldFile \/ OpenFieldFileFails \/ ParseFieldsFails
  \/ ParseFields \/ ReadCsvFails \/ ReadCsv \/ DescribeFails \/ Describe
  \/ \E n \in 1..MaxFields + 1 : ExtractTask(n)
  \/ \E n \in 1..MaxFields + 1 : ExtractTaskPanics(n)
  \/ CollectExtracted
  \/ CorrelationBegin \/ CellFiltered \/ CellNotValid \/ CellCorrelate
  \/ CellProviderFails \/ RowPush \/ CorrelationReturn
  \/ PearsonTable \/ PearsonTablePanics \/ KendallTable \/ KendallTablePanics
  \/ FactorFramePanics \/ FactorAnalysis \/ FactorAnalysisFails
  \/ WriteOutput \/ WriteOutputFails

Spec == Init /\ [][Next]_vars

\* ---------------------------------------- the formatter on its own inputs
FmtGrid ==
  { Num(0 - 1000000), Num(0 - 123456), Num(0 - 4), Num(0), Num(4), Num(49994),
    Num(49996), Num(50000), Num(50004), Num(123456), Num(1000000), NaN }

FmtInputs ==
  {NotValid} \cup {Valid([r |-> a, p_value |-> b]) : a \in FmtGrid, b \in FmtGrid}

InitFmt ==
  /\ pc = "fmt"
  /\ argc = 0
  /\ fields = <<>>
  /\ orig_dataframe = <<>>
  /\ result = <<>>
  /\ slots = <<>>
  /\ pending = {}
  /\ overtaken = FALSE
  /\ processed_data = <<>>
  /\ ci = 0 /\ cj = 0 /\ row = <<>>
  /\ pearson_series_vec = <<>>
  /\ kendall_series_vec = <<>>
  /\ calls = {}
  /\ fa_input = <<>>
  /\ exit_code = -1
  /\ diag = ""
  /\ out_file = Absent
  /\ fmt_value \in FmtInputs
  /\ fmt_text = <<>>

\* format!("{}", value)
FormatCell ==
  /\ pc = "fmt"
  /\ fmt_text' = DisplayValue(fmt_value)
  /\ pc' = "fmt_done"
  /\ UNCHANGED <<inputVars, result, extractVars, corrVars, fa_input, exit_code,
                 diag, out_file, fmt_value>>

NextFmt == FormatCell

SpecFmt == InitFmt /\ [][NextFmt]_vars

\* =================================================================== claims
Returned       == pc \in {"pearson_df", "kendall_df", "factor_df", "write", "done"}
TablesBuilt    == pc \in {"factor_df", "write", "done"}
PastExtraction == pc \in {"correlation", "corr_loop"} \/ Returned

Count(seq, x) == Cardinality({n \in 1..Len(seq) : seq[n] = x})

NoDuplicateNames ==
  \A a, b \in 1..Len(fields) : fields[a].name = fields[b].name => a = b

\* position of record n among the records of its own scale
Rank(n) == Cardinality({k \in 1..n : fields[k].scale = fields[n].scale})

MatrixOf(scale) ==
  IF scale = "Nominal" THEN kendall_series_vec ELSE pearson_series_vec

\* the cell in the row of record a, under the label of record b
CellAt(a, b) == MatrixOf(fields[a].scale)[1 + Rank(a)].values[Rank(b)]

SameGroup(a, b) == fields[a].scale = fields[b].scale

\* the records of one scale, in descriptor order
RECURSIVE RecordsOf(_, _)
RecordsOf(fs, scale) ==
  IF fs = <<>> THEN <<>>
  ELSE IF Head(fs).scale = scale
       THEN <<Head(fs).name>> \o RecordsOf(Tail(fs), scale)
       ELSE RecordsOf(Tail(fs), scale)

\* the CSV columns some record of the scale names, in CSV order
RECURSIVE DatasetOrder(_, _)
DatasetOrder(cols, scale) ==
  IF cols = <<>> THEN <<>>
  ELSE IF \E n \in 1..Len(fields) :
             fields[n].name = Head(cols) /\ fields[n].scale = scale
       THEN <<Head(cols)>> \o DatasetOrder(Tail(cols), scale)
       ELSE DatasetOrder(Tail(cols), scale)

Labels(scale) == MatrixOf(scale)[1].values

\* C1 (as claimed): after correlation() returns, for every ordered pair of
\* records of one scale group that name two different columns, the provider
\* was called for that pair and the cell holds the rendering of what that
\* call returned, whatever the two columns hold; a cell is the
\* not-applicable marker only when both records name the same column.
C1_ProviderCalledForDistinctColumns ==
  Returned =>
    \A a, b \in 1..Len(fields) :
      (SameGroup(a, b) /\ fields[a].name # fields[b].name) =>
        /\ \E c \in calls :
              /\ c.i = a /\ c.j = b
              /\ CellAt(a, b) = DisplayValue(Valid(c.res))
        /\ CellAt(a, b) # <<"NA">>

\* C2 (as claimed): in a finished run whose descriptor names no column
\* twice, the labels of each matrix are the columns of its scale group in
\* the order they have in the CSV file, however the descriptor orders them.
C2_LabelsInDatasetOrder ==
  (pc = "done" /\ NoDuplicateNames) =>
    \A sc \in Scales : Labels(sc) = DatasetOrder(DatasetColumns, sc)

\* C2 (amended): after correlation() returns, the row labels of each matrix
\* and the names of its columns are the names of the descriptor's records of
\* that scale, in descriptor order.
C2_LabelsInDescriptorOrder ==
  Returned =>
    \A sc \in Scales :
      /\ Labels(sc) = RecordsOf(fields, sc)
      /\ SeriesNames(Tail(MatrixOf(sc))) = RecordsOf(fields, sc)

C2_Witness ==
  /\ pc = "done"
  /\ Labels("Ordinal") = <<"spend", "q1">>
  /\ SeriesNames(Tail(pearson_series_vec)) = <<"spend", "q1">>

\* C3 (as claimed): a run given the source file alone ends successfully,
\* with a matrix section in a written report.
C3_SingleArgumentSucceeds ==
  (argc = 1 /\ pc \in {"done", "exited"}) =>
    /\ exit_code = 0
    /\ out_file.state = "complete"
    /\ Len(result) >= 2

\* C3 (amended): a run given the source file alone reads nothing and builds
\* nothing: it ends with status 1 and the message that no field description
\* file was specified, with no matrix, no provider call and no output file.
C3_SingleArgumentRejected ==
  argc = 1 =>
    /\ pc \in {"start", "exited"}
    /\ pc = "exited" =>
         exit_code = 1 /\ diag = "No field description file specified."
    /\ result = <<>> /\ calls = {} /\ out_file = Absent
    /\ pearson_series_vec = <<>> /\ kendall_series_vec = <<>>

C3_Witness == argc = 1 /\ pc = "exited" /\ exit_code = 1

\* C4 (as claimed): once both tables are built, every column the descriptor
\* names is a label of exactly one of the two matrices, exactly once,
\* whatever the descriptor (one naming a column in several records included).
C4_EveryColumnInExactlyOneMatrix ==
  TablesBuilt =>
    \A n \in 1..Len(fields) :
      Count(Labels("Ordinal"), fields[n].name)
        + Count(Labels("Nominal"), fields[n].name) = 1

\* C4 (amended): once both tables are built, a column is a label of the
\* Pearson matrix exactly as often as Ordinal records name it and of the
\* Kendall matrix exactly as often as Nominal records name it, never more
\* than once in one matrix; each matrix has one row per record of its scale.
C4_RecordsPartitioned ==
  TablesBuilt =>
    /\ \A nm \in FieldNames, sc \in Scales :
         /\ Count(Labels(sc), nm)
              = Cardinality({n \in 1..Len(fields) : fields[n] = Field(nm, sc)})
         /\ Count(Labels(sc), nm) <= 1
         /\ Count(SeriesNames(Tail(MatrixOf(sc))), nm) = Count(Labels(sc), nm)
    /\ Len(pearson_series_vec) + Len(kendall_series_vec) = Len(fields) + 2

C4_Witness ==
  /\ TablesBuilt
  /\ Labels("Ordinal") = <<"q1">>
  /\ Labels("Nominal") = <<"q1">>

\* C5 (as claimed): after correlation() returns, the cell of every record
\* against itself is the not-applicable marker, and no call to the provider
\* paired a column with itself.
C5_DiagonalNotApplicable ==
  Returned =>
    /\ \A a \in 1..Len(fields) : CellAt(a, a) = <<"NA">>
    /\ \A c \in calls : fields[c.i].name # fields[c.j].name

ReportTitles == [n \in 1..Len(result) |-> result[n].title]

\* C6: a run that has ended by exit(1) or by a panic has a non-zero status;
\* unless the failure was that of the final write itself, no output file
\* exists; while the run is still going no output file exists; and an output
\* file exists only once all four sections are in the report, in order.
C6_FailuresAreFatalAndWriteNothing ==
  /\ pc = "exited" => exit_code \in {1, 101}
  /\ exit_code = 0 => pc = "done"
  /\ (pc = "exited" /\ diag # "Unable to write result.") => out_file = Absent
  /\ pc \notin {"exited", "done"} => out_file = Absent
  /\ out_file # Absent =>
       ReportTitles = <<"Descriptive", "Pearson", "Kendall", "Factor">>
  /\ out_file.state = "complete" => (pc = "done" /\ out_file.content = result)

C6_Witness ==
  /\ pc = "exited" /\ diag = "factor_analyzer" /\ exit_code = 101
  /\ ReportTitles = <<"Descriptive", "Pearson", "Kendall">>
  /\ out_file = Absent

\* C7: every call to the provider pairs two records of the same scale, and
\* is a Pearson call if that scale is Ordinal and a Kendall call if it is
\* Nominal; after correlation() returns, every cell that is not the
\* not-applicable marker renders the result of such a call for its own pair.
C7_StatisticByScaleGroup ==
  /\ \A c \in calls :
       /\ SameGroup(c.i, c.j)
       /\ fields[c.i].scale = "Ordinal" => c.stat = "pearson"
       /\ fields[c.i].scale = "Nominal" => c.stat = "kendall"
  /\ Returned =>
       \A a, b \in 1..Len(fields) :
         (SameGroup(a, b) /\ CellAt(a, b) # <<"NA">>) =>
           \E c \in calls :
             /\ c.i = a /\ c.j = b
             /\ c.stat = (IF fields[a].scale = "Ordinal" THEN "pearson" ELSE "kendall")
             /\ CellAt(a, b) = DisplayValue(Valid(c.res))
  /\ Returned =>
       \A sc \in Scales :
         \A n \in 2..Len(MatrixOf(sc)) :
           Len(MatrixOf(sc)[n].values) = Len(RecordsOf(fields, sc))

C7_Witness ==
  /\ Returned
  /\ \E c \in calls : c.stat = "pearson" /\ c.i = 1 /\ c.j = 2
  /\ \E c \in calls : c.stat = "pearson" /\ c.i = 2 /\ c.j = 1
  /\ Len(pearson_series_vec) = 3 /\ Len(kendall_series_vec) = 1

\* C8 (as claimed): factor_analysis() is called only when the descriptor
\* names a designated column, and a finished run whose descriptor names none
\* has written the descriptive and matrix sections and no factor section.
C8_FactorAnalysisOnlyForDesignated ==
  /\ fa_input # <<>> => \E n \in 1..Len(fields) : IsDesignated(fields[n].name)
  /\ (pc = "done" /\ \A n \in 1..Len(fields) : ~IsDesignated(fields[n].name)) =>
       ReportTitles = <<"Descriptive", "Pearson", "Kendall">>

\* C9: the rendering of NotValid is the fixed marker; the rendering of a
\* result is emphasized exactly when r > 0 and p_value < 0.05 (as f64
\* comparisons), and in either form it shows r and p_value rounded to five
\* decimals.
C9_EmphasisRule ==
  pc = "fmt_done" =>
    IF ~fmt_value.valid THEN fmt_text = <<"NA">>
    ELSE LET bold == fmt_text[1] = "**"
             rTok == IF bold THEN fmt_text[3] ELSE fmt_text[2]
             pTok == IF bold THEN fmt_text[8] ELSE fmt_text[5]
         IN  /\ bold <=> ( /\ fmt_value.r.k = "num" /\ fmt_value.r.v > 0
                           /\ fmt_value.p_value.k = "num"
                           /\ fmt_value.p_value.v < 50000 )
             /\ Len(fmt_text) = (IF bold THEN 9 ELSE 5)
             /\ rTok = Fixed(fmt_value.r) /\ pTok = Fixed(fmt_value.p_value)
             /\ fmt_value.r = Num(123456) => rTok = "0.12346"
             /\ fmt_value.r = Num(0 - 4) => rTok = "-0.00000"
             /\ fmt_value.r = NaN => rTok = "NaN"
             /\ fmt_value.p_value = Num(49996) => pTok = "0.05000"
             /\ fmt_value.p_value = Num(1000000) => pTok = "1.00000"

C9_Witness ==
  /\ pc = "fmt_done"
  /\ fmt_value = Valid([r |-> Num(4), p_value |-> Num(49996)])
  /\ fmt_text = <<"**", "r: ", "0.00000", "**", " <br> ",
                  "**", "p value: ", "0.05000", "**">>

\* what the extraction of a CSV column must yield: its cells, with 0.0 for
\* the missing ones
Extracted(name) ==
  LET col == CHOOSE c \in 1..Len(orig_dataframe) : orig_dataframe[c].name = name
  IN  [n \in 1..NRows |->
         IF orig_dataframe[col].cells[n].k = "null" THEN Num(0)
         ELSE orig_dataframe[col].cells[n]]

\* C10: whatever the order in which the extraction tasks finish, once they
\* are collected processed_data is as long as fields and its n-th vector is
\* the data of the column the n-th record names; the vectors of every
\* provider call are the data of the two records the call is for.
C10_ExtractionKeepsFieldOrder ==
  PastExtraction =>
    /\ Len(processed_data) = Len(fields)
    /\ \A n \in 1..Len(fields) : processed_data[n] = Extracted(fields[n].name)
    /\ \A c \in calls :
         /\ c.x = Extracted(fields[c.i].name)
         /\ c.y = Extracted(fields[c.j].name)

C10_Witness ==
  /\ pc = "correlation"
  /\ overtaken
  /\ processed_data[1] # processed_data[2]
  /\ processed_data[1] = Extracted(fields[1].name)

====
